---- MODULE Spec2Model ----
(***************************************************************************)
(* A model of grafana_openai_monitoring/__handlers.py: the endpoint        *)
(* normalizer __check, the cost estimator __calculate_cost and the two     *)
(* reporters __send_logs and __send_metrics.                               *)
(*                                                                         *)
(* Python strings are TLA+ strings; the string methods the code uses       *)
(* (in, replace, endswith, slicing, join) are operators that work on the   *)
(* characters. Money is counted in units of 1e-8 dollar, prices in units   *)
(* of 1e-5 dollar per 1000 tokens, so that                                 *)
(*   (tokens / 1000) * price  [dollar]  =  tokens * price  [units]         *)
(* and the arithmetic is exact (float rounding is not modelled).           *)
(***************************************************************************)
EXTENDS Integers, Sequences, FiniteSets, TLC

VARIABLES
    chk_pc,       \* "idle", "checked" (__check was called) or "rechecked"
    chk_args,     \* the configuration the caller gives to __check
    chk_result,   \* what that call did: returned a pair of URLs, or raised
    re_result,    \* what __check did when called again on its own output
    cost_pc,      \* "idle" or "returned" (__calculate_cost was called)
    cost_args,    \* the model and token counts given to __calculate_cost
    cost_result,  \* the pricing key it resolved and the cost it returned
    send_fn,      \* the reporter that is running: "none", "logs", "metrics"
    send_pc,      \* the statement the running reporter is at
    send_body,    \* the body of the request of the running reporter
    response,     \* the status code of the response, 0 when there is none
    exc,          \* the exception in flight, "none" when there is none
    posts,        \* the POST attempts of the running (or last) call
    outcome,      \* how the last call ended: "none", "returned", "raised"
    error_log,    \* the records written by logger.error
    delivered,    \* the bodies the backend has accepted
    calls         \* the number of reporter calls made so far

vars == << chk_pc, chk_args, chk_result, re_result, cost_pc, cost_args,
           cost_result,
           send_fn, send_pc, send_body, response, exc, posts, outcome,
           error_log, delivered, calls >>

check_vars == << chk_pc, chk_args, chk_result, re_result >>
cost_vars == << cost_pc, cost_args, cost_result >>
send_vars == << send_fn, send_pc, send_body, response, exc, posts, outcome,
                error_log, delivered, calls >>

-----------------------------------------------------------------------------
(* Python's string operations.                                             *)

\* sub in s
Contains(s, sub) ==
    \E i \in 0..(Len(s) - Len(sub)) : SubSeq(s, i + 1, i + Len(sub)) = sub

\* s.endswith(suffix)
EndsWith(s, suffix) ==
    /\ Len(s) >= Len(suffix)
    /\ SubSeq(s, Len(s) - Len(suffix) + 1, Len(s)) = suffix

\* s.replace(old, new) for a non-empty old: the occurrences of old are found
\* from the left and do not overlap; the text put in is not scanned again.
RECURSIVE Replace(_, _, _)
Replace(s, old, new) ==
    IF Len(s) < Len(old) THEN s
    ELSE IF SubSeq(s, 1, Len(old)) = old
         THEN new \o Replace(SubSeq(s, Len(old) + 1, Len(s)), old, new)
         ELSE SubSeq(s, 1, 1) \o Replace(SubSeq(s, 2, Len(s)), old, new)

\* s[:-1]
DropLast(s) == SubSeq(s, 1, Len(s) - 1)

-----------------------------------------------------------------------------
(* __check                                                                 *)

\* An argument is a string or None.
None == [none |-> TRUE, s |-> ""]
Str(s) == [none |-> FALSE, s |-> s]

\* Python's truth value of an argument: None and "" are falsy.
Truthy(a) == ~a.none /\ Len(a.s) > 0

Raised == [raised |-> TRUE, metrics_url |-> "", logs_url |-> ""]
Returned(m, l) == [raised |-> FALSE, metrics_url |-> m, logs_url |-> l]

\* Lines 39-46 with the special case of line 45 left out.
ConvertNoRegion(metrics_url) ==
    IF Contains(metrics_url, "prometheus")
    THEN Replace(Replace(metrics_url, "prometheus", "influx"),
                 "api/prom", "api/v1/push/influx/write")
    ELSE metrics_url

\* Lines 39-46: the influx line protocol URL. The special case of the region
\* is inside the branch taken when the URL contains "prometheus".
Convert(metrics_url) ==
    IF Contains(metrics_url, "prometheus")
    THEN LET influx == Replace(metrics_url, "prometheus", "influx")
             write == Replace(influx, "api/prom", "api/v1/push/influx/write")
         IN  IF Contains(write, "-us-central1")
             THEN Replace(write, "-us-central1", "-prod-06-prod-us-central-0")
             ELSE write
    ELSE metrics_url

\* Lines 49-52 returning the URL as it is.
KeepSlash(url) == url

\* Lines 49-52 with url[:-1] taken whatever the URL ends with.
DropAlways(url) == DropLast(url)

\* Lines 49-52: url[:-1] if url.endswith('/') else url
StripSlash(url) == IF EndsWith(url, "/") THEN DropLast(url) ELSE url

\* Line 30: not all([...])
AnyMissing(args) == \E i \in 1..5 : ~Truthy(args[i])

\* Line 36 with the condition never true.
MarkerNotChecked(metrics_url) == FALSE

\* Line 36: "api/prom" not in metrics_url
MissingMarker(metrics_url) == ~Contains(metrics_url, "api/prom")

\* __check(metrics_url, logs_url, metrics_username, logs_username, access_token)
__check(args) ==
    IF AnyMissing(args) THEN Raised
    ELSE IF MissingMarker(args[1].s) THEN Raised
    ELSE Returned(StripSlash(Convert(args[1].s)), StripSlash(args[2].s))

-----------------------------------------------------------------------------
(* The inputs of __check.                                                  *)

MaxParts == 4
MaxLogParts == 2

\* The strings made of at most n parts.
RECURSIVE Concats(_, _)
Concats(parts, n) ==
    IF n = 0 THEN {""}
    ELSE LET shorter == Concats(parts, n - 1)
         IN  shorter \cup {s \o p : s \in shorter, p \in parts}

MetricsParts == {"api/prom", "prometheus", "-us-central1", "/", "api/", "x"}
LogsParts == {"l", "/"}

MetricsUrls == Concats(MetricsParts, MaxParts)
LogsUrls == Concats(LogsParts, MaxLogParts)
Credentials == {None, Str(""), Str("u")}

\* Every URL with good credentials, and every combination of missing
\* arguments with a few URLs.
CheckInputs ==
    {<<Str(m), l, Str("u"), Str("u"), Str("t")>> :
        m \in MetricsUrls, l \in {Str(x) : x \in LogsUrls}}
    \cup
    {<<m, l, mu, lu, t>> :
        m \in {None, Str(""), Str("api/prom"), Str("x")},
        l \in {None, Str(""), Str("l")},
        mu \in Credentials, lu \in Credentials, t \in {None, Str(""), Str("t")}}

\* The caller holds a configuration; __check has not been called.
CheckInit(inputs) ==
    /\ chk_pc = "idle"
    /\ chk_args \in inputs
    /\ chk_result = Raised
    /\ re_result = Raised

\* The caller calls __check with its configuration.
Check ==
    /\ chk_pc = "idle"
    /\ chk_pc' = "checked"
    /\ chk_result' = __check(chk_args)
    /\ UNCHANGED << chk_args, re_result, cost_vars, send_vars >>

\* The caller calls __check again, with the URLs it returned and the same
\* usernames and token.
Recheck ==
    /\ chk_pc = "checked"
    /\ ~chk_result.raised
    /\ chk_pc' = "rechecked"
    /\ re_result' = __check(<<Str(chk_result.metrics_url), Str(chk_result.logs_url),
                              chk_args[3], chk_args[4], chk_args[5]>>)
    /\ UNCHANGED << chk_args, chk_result, cost_vars, send_vars >>

-----------------------------------------------------------------------------
(* __calculate_cost                                                        *)

\* Lines 58-104: the prices, in the order of the dictionary, in units of
\* 1e-5 dollar per 1000 tokens.
Price(model, prompt_price, sampled_price) ==
    [model |-> model, prompt_price |-> prompt_price, sampled_price |-> sampled_price]

prices ==
    << Price("gpt-4.1", 200, 800),
       Price("gpt-4.1-mini", 40, 160),
       Price("gpt-4.1-nano", 10, 40),
       Price("gpt-4.5-preview", 7500, 15000),
       Price("gpt-4o", 250, 1000),
       Price("gpt-4o-mini", 15, 60),
       Price("o1", 1500, 6000),
       Price("o1-pro", 15000, 60000),
       Price("o3", 1000, 4000),
       Price("o3-mini", 110, 440),
       Price("o1-mini", 110, 440),
       Price("o4-mini", 110, 440),
       Price("gpt-4", 3000, 6000),
       Price("gpt-4-32k", 6000, 12000),
       Price("gpt-4-turbo", 1000, 3000),
       Price("gpt-4-turbo-2024-04-09", 1000, 3000),
       Price("gpt-4-0613", 3000, 6000),
       Price("gpt-3.5-turbo", 50, 150),
       Price("gpt-3.5-turbo-0125", 50, 150),
       Price("gpt-3.5-turbo-16k", 300, 400),
       Price("gpt-3.5-turbo-16k-0613", 300, 400),
       Price("gpt-3.5-turbo-instruct", 150, 200),
       Price("davinci-002", 200, 200),
       Price("babbage-002", 40, 40),
       Price("ada", 40, 40),
       Price("text-ada-001", 40, 40),
       Price("babbage", 40, 40),
       Price("text-babbage-001", 40, 40),
       Price("curie", 200, 200),
       Price("text-curie-001", 200, 200),
       Price("davinci", 200, 200),
       Price("text-davinci-001", 200, 200),
       Price("text-davinci-002", 200, 200),
       Price("text-davinci-003", 200, 200) >>

\* prices.keys(), in the order of the dictionary
Keys == [i \in 1..Len(prices) |-> prices[i].model]

KeySet == {Keys[i] : i \in 1..Len(Keys)}

\* prices[m], for a key m
PriceOf(m) == prices[CHOOSE i \in 1..Len(prices) : prices[i].model = m]

\* Line 111 with the test turned round: model in m
ContainingModels(model) == SelectSeq(Keys, LAMBDA m : Contains(m, model))

\* Line 111: [m for m in prices.keys() if m in model]
MatchingModels(model) == SelectSeq(Keys, LAMBDA m : Contains(model, m))

\* sorted(seq, key=len, reverse=True): a stable sort, so that strings of the
\* same length stay in the order they had. Insertion from the right.
RECURSIVE InsertByLen(_, _)
InsertByLen(m, sorted) ==
    IF sorted = << >> THEN << m >>
    ELSE IF Len(m) >= Len(Head(sorted))
         THEN << m >> \o sorted
         ELSE << Head(sorted) >> \o InsertByLen(m, Tail(sorted))

\* The same sort, not stable: of two strings of the same length the later
\* one comes first.
RECURSIVE InsertByLenAfter(_, _)
InsertByLenAfter(m, sorted) ==
    IF sorted = << >> THEN << m >>
    ELSE IF Len(m) > Len(Head(sorted))
         THEN << m >> \o sorted
         ELSE << Head(sorted) >> \o InsertByLenAfter(m, Tail(sorted))

RECURSIVE SortedTiesReversed(_)
SortedTiesReversed(seq) ==
    IF seq = << >> THEN << >>
    ELSE InsertByLenAfter(Head(seq), SortedTiesReversed(Tail(seq)))

RECURSIVE SortedByLenDesc(_)
SortedByLenDesc(seq) ==
    IF seq = << >> THEN << >>
    ELSE InsertByLen(Head(seq), SortedByLenDesc(Tail(seq)))

\* Lines 106-118: what the lookup of the model ends in: a key of the
\* dictionary, or no price at all.
NoMatch == [found |-> FALSE, key |-> ""]
Match(m) == [found |-> TRUE, key |-> m]

\* Lines 106-118 without the sort of line 114: the first match is taken.
ResolveFirstMatch(model) ==
    IF model \in KeySet THEN Match(model)
    ELSE LET matching_models == MatchingModels(model)
         IN  IF matching_models # << >>
             THEN Match(matching_models[1])
             ELSE NoMatch

Resolve(model) ==
    IF model \in KeySet THEN Match(model)
    ELSE LET matching_models == MatchingModels(model)
         IN  IF matching_models # << >>
             THEN Match(SortedByLenDesc(matching_models)[1])
             ELSE NoMatch

\* Line 121 with the two terms subtracted.
CostDifference(prompt_tokens, sampled_tokens, prompt_price, sampled_price) ==
    prompt_tokens * prompt_price - sampled_tokens * sampled_price

\* Line 121, in units of 1e-8 dollar.
Cost(prompt_tokens, sampled_tokens, prompt_price, sampled_price) ==
    prompt_tokens * prompt_price + sampled_tokens * sampled_price

\* __calculate_cost(model, prompt_tokens, sampled_tokens): the key it used
\* and the cost it returned.
__calculate_cost(model, prompt_tokens, sampled_tokens) ==
    LET r == Resolve(model)
    IN  IF r.found
        THEN [found |-> TRUE, key |-> r.key,
              cost |-> Cost(prompt_tokens, sampled_tokens,
                            PriceOf(r.key).prompt_price, PriceOf(r.key).sampled_price)]
        ELSE [found |-> FALSE, key |-> "", cost |-> 0]

-----------------------------------------------------------------------------
(* The inputs of __calculate_cost.                                         *)

MaxModelParts == 2
MaxTokens == 2

ModelParts ==
    {"gpt-4", "gpt-4-turbo", "gpt-4o", "gpt-4.1", "o1-pro", "o3-mini", "o1-mini",
     "babbage", "-custom-suffix", "GPT-4", "gpt", "unknown-model-xyz"}

\* Every key of the dictionary, and the names made of a few parts.
ModelNames == KeySet \cup Concats(ModelParts, MaxModelParts)

\* Token counts are integers that the function does not validate.
TokenCounts == {-500} \cup {500 * k : k \in 0..MaxTokens}

\* The caller holds the usage of one API call; __calculate_cost has not
\* been called.
CostInit(models, tokens) ==
    /\ cost_pc = "idle"
    /\ cost_args \in models \X tokens \X tokens
    /\ cost_result = [found |-> FALSE, key |-> "", cost |-> 0]

\* The caller calls __calculate_cost with the usage.
CalculateCost ==
    /\ cost_pc = "idle"
    /\ cost_pc' = "returned"
    /\ cost_result' = __calculate_cost(cost_args[1], cost_args[2], cost_args[3])
    /\ UNCHANGED << cost_args, check_vars, send_vars >>

-----------------------------------------------------------------------------
(* __send_logs and __send_metrics                                          *)

\* sep.join(strings)
RECURSIVE Join(_, _)
Join(strings, sep) ==
    IF strings = << >> THEN ""
    ELSE IF Len(strings) = 1 THEN strings[1]
         ELSE strings[1] \o sep \o Join(Tail(strings), sep)

\* What requests.post can end in: a response with a status code, or an
\* exception of the transport. The exceptions of requests are all
\* subclasses of requests.exceptions.RequestException.
StatusCodes == {200, 204, 304, 404, 500}
TransportErrors == {"ConnectionError", "Timeout"}
RequestException == TransportErrors \cup {"HTTPError"}

\* The backend accepts the body of a request it answers with 2xx.
Accepted(status) == status \in 200..299

\* response.raise_for_status() raises HTTPError for a 4xx or 5xx status and
\* returns for every other status.
IsErrorStatus(status) == status \in 400..599

MaxCalls == 2
MaxLines == 1

\* The lines of metrics and the logs a caller reports.
MetricsLines == UNION {[1..n -> {"m1 1", "m2 2"}] : n \in 0..MaxLines}
LogsPayloads == {"{}", "{streams}"}

SendInit ==
    /\ send_fn = "none"
    /\ send_pc = "idle"
    /\ send_body = ""
    /\ response = 0
    /\ exc = "none"
    /\ posts = 0
    /\ outcome = "none"
    /\ error_log = << >>
    /\ delivered = {}
    /\ calls = 0

\* Line 126: a caller calls __send_logs; requests makes the body of json=logs.
__send_logs ==
    \E logs \in LogsPayloads :
        /\ send_pc = "idle"
        /\ calls < MaxCalls
        /\ send_fn' = "logs"
        /\ send_body' = logs
        /\ send_pc' = "post"
        /\ response' = 0
        /\ exc' = "none"
        /\ posts' = 0
        /\ outcome' = "none"
        /\ calls' = calls + 1
        /\ UNCHANGED << error_log, delivered, check_vars, cost_vars >>

\* Lines 139-141: a caller calls __send_metrics; body = '\n'.join(metrics)
__send_metrics ==
    \E metrics \in MetricsLines :
        /\ send_pc = "idle"
        /\ calls < MaxCalls
        /\ send_fn' = "metrics"
        /\ send_body' = Join(metrics, "\n")
        /\ send_pc' = "post"
        /\ response' = 0
        /\ exc' = "none"
        /\ posts' = 0
        /\ outcome' = "none"
        /\ calls' = calls + 1
        /\ UNCHANGED << error_log, delivered, check_vars, cost_vars >>

\* Lines 128-133 and 142-147: response = requests.post(..., timeout=60)
Post ==
    /\ send_pc = "post"
    /\ posts' = posts + 1
    /\ \/ \E status \in StatusCodes :
            /\ response' = status
            /\ delivered' = IF Accepted(status)
                            THEN delivered \cup
                                 {[call |-> calls, fn |-> send_fn, body |-> send_body]}
                            ELSE delivered
            /\ send_pc' = "raise_for_status"
            /\ exc' = exc
       \/ \E e \in TransportErrors :
            /\ exc' = e
            /\ send_pc' = "except"
            /\ UNCHANGED << response, delivered >>
    /\ UNCHANGED << send_fn, send_body, outcome, error_log, calls,
                    check_vars, cost_vars >>

\* Lines 134 and 148: response.raise_for_status()
RaiseForStatus ==
    /\ send_pc = "raise_for_status"
    /\ IF IsErrorStatus(response)
       THEN exc' = "HTTPError" /\ send_pc' = "except"
       ELSE exc' = exc /\ send_pc' = "return"
    /\ UNCHANGED << send_fn, send_body, response, posts, outcome, error_log,
                    delivered, calls, check_vars, cost_vars >>

\* Lines 135-136 and 149-150: except requests.exceptions.RequestException as
\* err: logger.error(...). Any other exception goes on to the caller.
Except ==
    /\ send_pc = "except"
    /\ IF exc \in RequestException
       THEN /\ error_log' = Append(error_log,
                                   [call |-> calls, fn |-> send_fn, err |-> exc])
            /\ send_pc' = "return"
            /\ outcome' = outcome
       ELSE /\ error_log' = error_log
            /\ send_pc' = "idle"
            /\ outcome' = "raised"
    /\ UNCHANGED << send_fn, send_body, response, exc, posts, delivered, calls,
                    check_vars, cost_vars >>

\* The end of the function: it returns None to the caller.
Return ==
    /\ send_pc = "return"
    /\ send_pc' = "idle"
    /\ outcome' = "returned"
    /\ UNCHANGED << send_fn, send_body, response, exc, posts, error_log,
                    delivered, calls, check_vars, cost_vars >>

-----------------------------------------------------------------------------------------------------------------------------------------------------
(* The specifications. The three components share no state: each has a     *)
(* specification of its own, in which the other two are at rest.           *)

CheckRest == CheckInit({<<None, None, None, None, None>>})
CostRest == CostInit({""}, {0})

InitCheck == CheckInit(CheckInputs) /\ CostRest /\ SendInit
InitCost == CheckRest /\ CostInit(ModelNames, TokenCounts) /\ SendInit
InitSend == CheckRest /\ CostRest /\ SendInit

Init == InitCheck \/ InitCost \/ InitSend

CheckNext == Check \/ Recheck
CostNext == CalculateCost
SendNext == __send_logs \/ __send_metrics \/ Post \/ RaiseForStatus \/ Except \/ Return

Next == CheckNext \/ CostNext \/ SendNext

SpecCheck == InitCheck /\ [][CheckNext]_vars
SpecCost == InitCost /\ [][CostNext]_vars
SpecSend == InitSend /\ [][SendNext]_vars
Spec == Init /\ [][Next]_vars

-----------------------------------------------------------------------------
(* The claims about __check.                                               *)

metrics_url == chk_args[1].s
logs_url == chk_args[2].s

\* The five arguments are non-empty strings and metrics_url has the marker.
ValidConfig ==
    /\ \A i \in 1..5 : ~chk_args[i].none /\ chk_args[i].s # ""
    /\ Contains(metrics_url, "api/prom")

Checked == chk_pc # "idle"

\* C1, as stated: for every valid configuration, neither of the two URLs
\* that __check returns ends with "/".
C1_NoTrailingSlash ==
    (Checked /\ ValidConfig) =>
        /\ ~chk_result.raised
        /\ ~EndsWith(chk_result.metrics_url, "/")
        /\ ~EndsWith(chk_result.logs_url, "/")

\* C1, amended: for every valid configuration, __check removes exactly one
\* trailing "/" from each URL: a returned URL ends with "/" exactly when the
\* URL given ended with "//", and the logs URL returned is the one given
\* without its last "/", if it had one.
C1_OneSlashStripped ==
    (Checked /\ ValidConfig) =>
        /\ ~chk_result.raised
        /\ EndsWith(chk_result.metrics_url, "/") <=> EndsWith(metrics_url, "//")
        /\ EndsWith(chk_result.logs_url, "/") <=> EndsWith(logs_url, "//")
        /\ IF EndsWith(logs_url, "/")
           THEN chk_result.logs_url \o "/" = logs_url
           ELSE chk_result.logs_url = logs_url

\* A valid configuration whose URLs both end with one "/", which is gone
\* from both of the URLs returned.
C1_Witness ==
    /\ Checked /\ ValidConfig
    /\ EndsWith(metrics_url, "/") /\ ~EndsWith(metrics_url, "//")
    /\ EndsWith(logs_url, "/") /\ ~EndsWith(logs_url, "//")
    /\ ~chk_result.raised
    /\ ~EndsWith(chk_result.metrics_url, "/")
    /\ ~EndsWith(chk_result.logs_url, "/")

\* C2: __check raises if and only if one of its five arguments is empty or
\* absent, or metrics_url does not contain "api/prom".
C2_RaisesIffInvalid ==
    Checked =>
        (chk_result.raised <=>
            \/ \E i \in 1..5 : chk_args[i].none \/ chk_args[i].s = ""
            \/ ~Contains(metrics_url, "api/prom"))

\* Five non-empty arguments, a metrics_url without the marker: raised.
C2_Witness ==
    /\ Checked
    /\ \A i \in 1..5 : ~chk_args[i].none /\ chk_args[i].s # ""
    /\ ~Contains(metrics_url, "api/prom")
    /\ chk_result.raised

\* C3, as stated: __check called again with the URLs it returned returns
\* those two URLs.
C3_ReapplySafe ==
    chk_pc = "rechecked" => (~re_result.raised /\ re_result = chk_result)

\* C3, amended: __check called again with the URLs it returned returns those
\* two URLs if and only if the metrics_url given first does not contain
\* "prometheus", neither URL given first ends with "//", and the logs_url
\* given first is not "/". When metrics_url contains "prometheus", or
\* logs_url is "/", the second call raises.
C3_ReapplyWhenStable ==
    chk_pc = "rechecked" =>
        /\ (~re_result.raised /\ re_result = chk_result) <=>
              /\ ~Contains(metrics_url, "prometheus")
              /\ ~EndsWith(metrics_url, "//")
              /\ ~EndsWith(logs_url, "//")
              /\ logs_url # "/"
        /\ re_result.raised <=> (Contains(metrics_url, "prometheus") \/ logs_url = "/")

\* A URL with a trailing "/" that the first call strips and the second call
\* leaves as it is.
C3_Witness ==
    /\ chk_pc = "rechecked"
    /\ EndsWith(metrics_url, "/")
    /\ ~re_result.raised
    /\ re_result = chk_result

\* C4: for every valid configuration whose metrics_url contains
\* "prometheus", the metrics URL returned contains
\* "api/v1/push/influx/write" and does not contain "prometheus".
C4_PushGatewayForm ==
    (Checked /\ ValidConfig /\ Contains(metrics_url, "prometheus")) =>
        /\ ~chk_result.raised
        /\ Contains(chk_result.metrics_url, "api/v1/push/influx/write")
        /\ ~Contains(chk_result.metrics_url, "prometheus")

\* C9, as stated: for every valid configuration whose metrics_url contains
\* "-us-central1", with or without "prometheus", the metrics URL returned
\* contains "-prod-06-prod-us-central-0" and no "-us-central1".
C9_RegionAlways ==
    (Checked /\ ValidConfig /\ Contains(metrics_url, "-us-central1")) =>
        /\ Contains(chk_result.metrics_url, "-prod-06-prod-us-central-0")
        /\ ~Contains(chk_result.metrics_url, "-us-central1")

\* C9, amended: the region is replaced only where "prometheus" is replaced:
\* for every valid configuration whose metrics_url contains "-us-central1",
\* the metrics URL returned contains "-prod-06-prod-us-central-0" and no
\* "-us-central1" if metrics_url contains "prometheus", and still contains
\* "-us-central1" if it does not.
C9_RegionWithPrometheus ==
    (Checked /\ ValidConfig /\ Contains(metrics_url, "-us-central1")) =>
        IF Contains(metrics_url, "prometheus")
        THEN /\ Contains(chk_result.metrics_url, "-prod-06-prod-us-central-0")
             /\ ~Contains(chk_result.metrics_url, "-us-central1")
        ELSE Contains(chk_result.metrics_url, "-us-central1")

\* A metrics_url with "prometheus" and the region, which is replaced.
C9_Witness ==
    /\ Checked /\ ValidConfig
    /\ Contains(metrics_url, "prometheus")
    /\ Contains(metrics_url, "-us-central1")
    /\ Contains(chk_result.metrics_url, "-prod-06-prod-us-central-0")

-----------------------------------------------------------------------------
(* The claims about __calculate_cost.                                      *)

model == cost_args[1]
prompt_tokens == cost_args[2]
sampled_tokens == cost_args[3]

CostReturned == cost_pc = "returned"

\* The keys of the dictionary that are substrings of the model.
KeysIn(m) == {k \in KeySet : Contains(m, k)}

\* The cost at the prices of key k.
CostAt(k) ==
    prompt_tokens * PriceOf(k).prompt_price + sampled_tokens * PriceOf(k).sampled_price

\* C5: a model that is a key is priced at that key; any other model is
\* priced at a key that is a substring of it and as long as any key that is
\* a substring of it.
C5_LongestMatch ==
    CostReturned =>
        /\ model \in KeySet =>
              cost_result.found /\ cost_result.key = model
        /\ (model \notin KeySet /\ KeysIn(model) # {}) =>
              /\ cost_result.found
              /\ cost_result.key \in KeysIn(model)
              /\ \A k \in KeysIn(model) : Len(k) <= Len(cost_result.key)
        /\ cost_result.found => cost_result.cost = CostAt(cost_result.key)

\* "gpt-4-turbo-custom-suffix", 1000, 0 is priced at "gpt-4-turbo": 0.01.
C5_Witness ==
    /\ CostReturned
    /\ cost_args = << "gpt-4-turbo-custom-suffix", 1000, 0 >>
    /\ cost_result.key = "gpt-4-turbo"
    /\ cost_result.cost = 1000000

\* C6, as stated: the cost returned is never negative.
C6_CostNonNegative == CostReturned => cost_result.cost >= 0

\* C6, amended: the cost returned is not negative when neither token count
\* is negative.
C6_NonNegativeTokens ==
    (CostReturned /\ prompt_tokens >= 0 /\ sampled_tokens >= 0) =>
        cost_result.cost >= 0

\* A priced model and two positive token counts: a positive cost.
C6_Witness ==
    /\ CostReturned
    /\ prompt_tokens > 0 /\ sampled_tokens > 0
    /\ cost_result.found
    /\ cost_result.cost > 0

\* C7: a model of which no key is a substring costs 0, whatever the token
\* counts.
C7_UnknownIsZero ==
    (CostReturned /\ KeysIn(model) = {}) =>
        ~cost_result.found /\ cost_result.cost = 0

\* "unknown-model-xyz", 500, 500 costs 0.
C7_Witness ==
    /\ CostReturned
    /\ cost_args = << "unknown-model-xyz", 500, 500 >>
    /\ cost_result.cost = 0

\* The places in the dictionary of the longest keys that are substrings of m.
LongestAt(m) ==
    LET at == {i \in 1..Len(Keys) : Contains(m, Keys[i])}
    IN  {i \in at : \A j \in at : Len(Keys[j]) <= Len(Keys[i])}

\* C10: the key used is the first, in the order of the dictionary, of the
\* longest keys that are substrings of the model, for every model.
C10_FirstDeclaredLongest ==
    CostReturned =>
        IF LongestAt(model) = {}
        THEN ~cost_result.found
        ELSE /\ cost_result.found
             /\ cost_result.key =
                   Keys[CHOOSE i \in LongestAt(model) : \A j \in LongestAt(model) : i <= j]

\* Two longest keys with different prices; the one declared first is used.
C10_Witness ==
    /\ CostReturned
    /\ \E i, j \in LongestAt(model) :
          /\ i < j
          /\ prices[i].prompt_price # prices[j].prompt_price
          /\ cost_result.key = Keys[i]

-----------------------------------------------------------------------------
(* The claim about __send_logs and __send_metrics.                         *)

\* A call has ended.
SendEnded == send_pc = "idle" /\ calls > 0

\* The call met a failure of the transport or a response that is not 2xx.
SendFailed == exc \in TransportErrors \/ (response # 0 /\ response \notin 200..299)

\* C8: every call makes one POST attempt and returns to its caller; a call
\* that met a failure of the transport or a response that is not 2xx logged
\* an error, and its body is not delivered.
C8_OneAttemptLoggedNoRaise ==
    SendEnded =>
        /\ posts = 1
        /\ outcome = "returned"
        /\ SendFailed =>
              /\ \E i \in 1..Len(error_log) : error_log[i].call = calls
              /\ \A d \in delivered : d.call # calls

====
